---- MODULE Spec2Model ----
(***************************************************************************)
(* Model of the gallery generator: the core operations of                  *)
(* src/scripts/generate-gallery-lib.ts and the script                      *)
(* src/scripts/generate-gallery.ts that calls them.                        *)
(*                                                                         *)
(* SpecParse, Spec, SpecOutput, SpecTransform and SpecCore call the core    *)
(* operations on bounded sets of inputs; SpecScript is one run of the       *)
(* script from its first statement to its exit.                            *)
(*                                                                         *)
(* Strings that the code inspects (tags, extension names, asset names,     *)
(* version strings, tag and feature words) are sequences of one-character  *)
(* strings, so that startsWith, split, the semver grammar and the string   *)
(* orderings are computed character by character.  Strings the code only   *)
(* copies (urls, dates, titles) are TLA+ strings.                          *)
(*                                                                         *)
(* A JavaScript object with optional properties is a record that has the   *)
(* field exactly when the property is present.                             *)
(***************************************************************************)
EXTENDS Integers, Sequences, FiniteSets, TLC

VARIABLES
    manifests,      \* Map<string, ExtensionManifest>: entries in insertion order
    releases,       \* GitHubRelease[]
    extensionName,  \* the extensionName argument of parseExtensionRelease
    parsed,         \* last result of parseExtensionRelease
    extensions,     \* last result of buildExtensions
    allTags,        \* collectTagsAndFeatures().allTags (a Set in insertion order)
    allFeatures,    \* collectTagsAndFeatures().allFeatures
    called,         \* the operations that have returned
    config,         \* GalleryConfig
    output,         \* last result of buildOutput
    apiReleases,    \* GitHubApiRelease[]
    error,          \* the error an operation or the script ended with, "" if none
    env,            \* process.env of the script: the set variables and their values
    pc              \* the statement of the script that runs next

vars == <<manifests, releases, extensionName, parsed, extensions,
          allTags, allFeatures, called, config, output, apiReleases,
          error, env, pc>>

\* The variables of the script that calls of the library leave alone
scriptVars == <<env, pc>>

-----------------------------------------------------------------------------
(* Bounds of the model *)

MaxManifests == 2

MaxReleases == 2

-----------------------------------------------------------------------------
(* JavaScript values *)

\* null: the value parseExtensionRelease and semverValid return for a rejection,
\* and the value of the JSON text "null"
Null == [type |-> "null"]

\* undefined, as returned by Array.prototype.find
Undefined == [type |-> "undefined"]

\* {}: an object without properties
EmptyObject == <<>>

Range(s) == {s[i] : i \in 1..Len(s)}

-----------------------------------------------------------------------------
(* Characters and strings *)

\* The characters of the model in UTF-16 code unit order.
Ascii ==
    <<" ", "+", "-", ".",
      "0", "1", "2", "3", "4", "5", "6", "7", "8", "9",
      "@",
      "A", "B", "C", "D", "E", "F", "G", "H", "I", "J", "K", "L", "M",
      "N", "O", "P", "Q", "R", "S", "T", "U", "V", "W", "X", "Y", "Z",
      "a", "b", "c", "d", "e", "f", "g", "h", "i", "j", "k", "l", "m",
      "n", "o", "p", "q", "r", "s", "t", "u", "v", "w", "x", "y", "z">>

\* Rank of a character in code unit order.
CodeUnit(c) == CHOOSE i \in 1..Len(Ascii) : Ascii[i] = c

Digits == {"0", "1", "2", "3", "4", "5", "6", "7", "8", "9"}

UpperCase == {Ascii[i] : i \in CodeUnit("A")..CodeUnit("Z")}

LowerCase == {Ascii[i] : i \in CodeUnit("a")..CodeUnit("z")}

\* String.prototype.startsWith
StartsWith(s, p) == Len(p) <= Len(s) /\ SubSeq(s, 1, Len(p)) = p

\* String.prototype.indexOf, 1-based; 0 when sep does not occur
IndexOf(s, sep) ==
    LET hits == {i \in 1..(Len(s) - Len(sep) + 1) :
                    SubSeq(s, i, i + Len(sep) - 1) = sep}
    IN  IF hits = {} THEN 0 ELSE CHOOSE i \in hits : \A j \in hits : i <= j

\* The places where split cuts: the occurrences of the separator met from
\* left to right, an occurrence that overlaps the previous cut being passed over.
Cuts(s, sep) ==
    LET taken[i \in 0..Len(s)] ==
            IF i = 0 THEN {}
            ELSE IF /\ i + Len(sep) - 1 <= Len(s)
                    /\ SubSeq(s, i, i + Len(sep) - 1) = sep
                    /\ \A j \in taken[i - 1] : j + Len(sep) <= i
                 THEN taken[i - 1] \cup {i}
                 ELSE taken[i - 1]
    IN  taken[Len(s)]

\* The k-th cut from the left
NthCut(cuts, k) == CHOOSE i \in cuts : Cardinality({j \in cuts : j < i}) = k - 1

\* The pieces of s between cuts of the given width
Pieces(s, width, cuts) ==
    [k \in 1..(Cardinality(cuts) + 1) |->
        SubSeq(s,
               IF k = 1 THEN 1 ELSE NthCut(cuts, k - 1) + width,
               IF k = Cardinality(cuts) + 1 THEN Len(s) ELSE NthCut(cuts, k) - 1)]

\* String.prototype.split with a non-empty separator
Split(s, sep) == Pieces(s, Len(sep), Cuts(s, sep))

\* String.prototype.trim (the only white space of the model is " ")
Trim(s) ==
    LET kept == {i \in 1..Len(s) : s[i] # " "}
    IN  IF kept = {} THEN <<>>
        ELSE SubSeq(s, CHOOSE i \in kept : \A j \in kept : i <= j,
                       CHOOSE i \in kept : \A j \in kept : j <= i)

\* a < b on strings: comparison by code units
StrLess(a, b) ==
    \E i \in 1..(Len(b)) :
        /\ i <= Len(a) + 1
        /\ SubSeq(a, 1, i - 1) = SubSeq(b, 1, i - 1)
        /\ (i = Len(a) + 1 \/ CodeUnit(a[i]) < CodeUnit(b[i]))

\* The decimal value of a string of digits
ToNumber(s) ==
    LET f[i \in 0..Len(s)] ==
            IF i = 0 THEN 0
            ELSE 10 * f[i - 1] + (CodeUnit(s[i]) - CodeUnit("0"))
    IN  f[Len(s)]

-----------------------------------------------------------------------------
(* The semver package: semver/functions/valid and semver/functions/rcompare *)

AllDigits(s) == Len(s) > 0 /\ \A i \in 1..Len(s) : s[i] \in Digits

IsIdentifierChar(c) == c \in Digits \/ c \in UpperCase \/ c \in LowerCase \/ c = "-"

\* NUMERICIDENTIFIER: 0|[1-9]\d*
IsNumericIdentifier(s) == AllDigits(s) /\ (Len(s) = 1 \/ s[1] # "0")

\* NONNUMERICIDENTIFIER: \d*[a-zA-Z-][a-zA-Z0-9-]*
IsNonNumericIdentifier(s) ==
    /\ Len(s) > 0
    /\ \A i \in 1..Len(s) : IsIdentifierChar(s[i])
    /\ \E i \in 1..Len(s) : s[i] \notin Digits

\* PRERELEASEIDENTIFIER
IsPrereleaseIdentifier(s) == IsNumericIdentifier(s) \/ IsNonNumericIdentifier(s)

\* BUILDIDENTIFIER: [a-zA-Z0-9-]+
IsBuildIdentifier(s) == Len(s) > 0 /\ \A i \in 1..Len(s) : IsIdentifierChar(s[i])

\* The part of s before the first c (all of s when c does not occur)
BeforeFirst(s, c) == IF IndexOf(s, c) = 0 THEN s ELSE SubSeq(s, 1, IndexOf(s, c) - 1)

\* The part of s after the first c
AfterFirst(s, c) == SubSeq(s, IndexOf(s, c) + 1, Len(s))

\* MAINVERSION, PRERELEASE and BUILD, each given as its identifiers: the
\* parsed version when all are well-formed, Null otherwise
SemverOfIdentifiers(mainIds, hasPre, preIds, hasBuild, buildIds) ==
    IF /\ Len(mainIds) = 3
       /\ \A i \in 1..Len(mainIds) : IsNumericIdentifier(mainIds[i])
       /\ (hasPre => \A i \in 1..Len(preIds) : IsPrereleaseIdentifier(preIds[i]))
       /\ (hasBuild => \A i \in 1..Len(buildIds) : IsBuildIdentifier(buildIds[i]))
    THEN [major      |-> ToNumber(mainIds[1]),
          minor      |-> ToNumber(mainIds[2]),
          patch      |-> ToNumber(mainIds[3]),
          prerelease |-> IF hasPre THEN preIds ELSE <<>>]
    ELSE Null

\* MAIN(-PRERELEASE)? followed by (\+BUILD)?: no identifier of MAIN or
\* PRERELEASE holds "+" and none of MAIN holds "-", so BUILD starts at the
\* first "+" and PRERELEASE at the first "-" before it.
SemverOfParts(core, hasBuild, build) ==
    SemverOfIdentifiers(Split(BeforeFirst(core, <<"-">>), <<".">>),
                        IndexOf(core, <<"-">>) # 0,
                        Split(AfterFirst(core, <<"-">>), <<".">>),
                        hasBuild,
                        Split(build, <<".">>))

\* ^v?MAIN(-PRERELEASE)?(\+BUILD)?$ with the leading v left out
SemverOfPlain(s) ==
    SemverOfParts(BeforeFirst(s, <<"+">>), IndexOf(s, <<"+">>) # 0, AfterFirst(s, <<"+">>))

\* The leading v? of the FULL pattern
StripV(s) == IF Len(s) > 0 /\ s[1] = "v" THEN Tail(s) ELSE s

\* new SemVer(version): the match of version.trim() against the FULL pattern
\*   ^v?MAIN(-PRERELEASE)?(\+BUILD)?$
\* as the parsed version, or Null where the constructor throws.
SemverParse(version) == SemverOfPlain(StripV(Trim(version)))

\* semverValid(version): Null, or the parsed version when the string is valid
\* (the code only compares the result with null).
SemverValid(version) == SemverParse(version)

Sign(n) == IF n < 0 THEN -1 ELSE IF n > 0 THEN 1 ELSE 0

\* compareIdentifiers of semver/internal/identifiers
CompareIdentifiers(a, b) ==
    IF AllDigits(a) /\ AllDigits(b) THEN Sign(ToNumber(a) - ToNumber(b))
    ELSE IF a = b THEN 0
    ELSE IF AllDigits(a) /\ ~AllDigits(b) THEN -1
    ELSE IF AllDigits(b) /\ ~AllDigits(a) THEN 1
    ELSE IF StrLess(a, b) THEN -1 ELSE 1

\* SemVer.compareMain
CompareMain(a, b) ==
    IF a.major # b.major THEN Sign(a.major - b.major)
    ELSE IF a.minor # b.minor THEN Sign(a.minor - b.minor)
    ELSE Sign(a.patch - b.patch)

\* SemVer.comparePre
ComparePre(a, b) ==
    LET p == a.prerelease
        q == b.prerelease
        at[i \in 1..(Len(p) + Len(q) + 1)] ==
            IF i > Len(p) /\ i > Len(q) THEN 0
            ELSE IF i > Len(q) THEN 1
            ELSE IF i > Len(p) THEN -1
            ELSE IF p[i] = q[i] THEN at[i + 1]
            ELSE CompareIdentifiers(p[i], q[i])
    IN  IF Len(p) > 0 /\ Len(q) = 0 THEN -1
        ELSE IF Len(p) = 0 /\ Len(q) > 0 THEN 1
        ELSE IF Len(p) = 0 /\ Len(q) = 0 THEN 0
        ELSE at[1]

\* SemVer.compare: compareMain(other) || comparePre(other)
CompareParsed(x, y) ==
    IF CompareMain(x, y) # 0 THEN CompareMain(x, y) ELSE ComparePre(x, y)

\* semver compare(a, b) on version strings; build metadata is ignored
SemverCompare(a, b) == CompareParsed(SemverParse(a), SemverParse(b))

\* semverRcompare(a, b) = compare(b, a)
SemverRcompare(a, b) == SemverCompare(b, a)

-----------------------------------------------------------------------------
(* JSON.parse of a release body *)

\* A body is either a string that is no JSON text (JSON.parse throws) or the
\* JSON text of a value.  A parsed value carries its JavaScript type; an
\* object is a record holding the properties it has.
IsJsonText(body) == body.kind = "json"

\* let metadata = null; try { metadata = JSON.parse(release.body) } catch {}
ParseBody(body) == IF IsJsonText(body) THEN body.value ELSE Null

\* metadata?.<name> is not undefined
HasProperty(metadata, name) ==
    metadata.type = "object" /\ name \in DOMAIN metadata.value

-----------------------------------------------------------------------------
(* parseExtensionRelease *)

AtV == <<"@", "v">>

TarGz == <<".", "t", "a", "r", ".", "g", "z">>

\* release.assets.find((a) => a.name === name)
FindAsset(assets, name) ==
    LET hits == {i \in 1..Len(assets) : assets[i].name = name}
    IN  IF hits = {} THEN Undefined
        ELSE assets[CHOOSE i \in hits : \A j \in hits : i <= j]

\* release.tagName.split("@v")[1]
ExtractVersion(tagName) == Split(tagName, AtV)[2]

\* Mutant: the release body's value is never looked at.
MinimumConnectVersion_manifestOnly(metadata, manifest) ==
    manifest.extension.minimumConnectVersion

\* metadata?.minimumConnectVersion || manifest.extension.minimumConnectVersion
MinimumConnectVersion(metadata, manifest) ==
    IF /\ HasProperty(metadata, "minimumConnectVersion")
       /\ metadata.value.minimumConnectVersion # ""
    THEN metadata.value.minimumConnectVersion
    ELSE manifest.extension.minimumConnectVersion

\* Mutant: the lists are tested for presence, not for their length.
RequiredFeaturesSpread_noLength(metadata, manifest) ==
    IF HasProperty(metadata, "requiredFeatures")
    THEN [requiredFeatures |-> metadata.value.requiredFeatures]
    ELSE IF "requiredFeatures" \in DOMAIN manifest.extension
    THEN [requiredFeatures |-> manifest.extension.requiredFeatures]
    ELSE EmptyObject

\* ...(metadata?.requiredFeatures?.length ? {..} :
\*     manifest.extension.requiredFeatures?.length ? {..} : {})
RequiredFeaturesSpread(metadata, manifest) ==
    IF /\ HasProperty(metadata, "requiredFeatures")
       /\ Len(metadata.value.requiredFeatures) # 0
    THEN [requiredFeatures |-> metadata.value.requiredFeatures]
    ELSE IF /\ "requiredFeatures" \in DOMAIN manifest.extension
            /\ Len(manifest.extension.requiredFeatures) # 0
    THEN [requiredFeatures |-> manifest.extension.requiredFeatures]
    ELSE EmptyObject

\* Mutant: the manifest's environment wins over the release body's.
RequiredEnvironmentSpread_manifestFirst(metadata, manifest) ==
    IF "environment" \in DOMAIN manifest
    THEN [requiredEnvironment |-> manifest.environment]
    ELSE IF HasProperty(metadata, "requiredEnvironment")
    THEN [requiredEnvironment |-> metadata.value.requiredEnvironment]
    ELSE EmptyObject

\* ...(metadata?.requiredEnvironment ? {..} : manifest.environment ? {..} : {})
\* An environment is an object, so it is truthy whenever it is present.
RequiredEnvironmentSpread(metadata, manifest) ==
    IF HasProperty(metadata, "requiredEnvironment")
    THEN [requiredEnvironment |-> metadata.value.requiredEnvironment]
    ELSE IF "environment" \in DOMAIN manifest
    THEN [requiredEnvironment |-> manifest.environment]
    ELSE EmptyObject

\* const extVersion: ExtensionVersion = { ... }
ExtensionVersion(version, release, asset, metadata, manifest) ==
    [version  |-> version,
     released |-> release.publishedAt,
     url      |-> asset.url,
     minimumConnectVersion |-> MinimumConnectVersion(metadata, manifest)]
    @@ RequiredFeaturesSpread(metadata, manifest)
    @@ RequiredEnvironmentSpread(metadata, manifest)

\* if (!asset) return null; ...; if (semverValid(version) === null) return null;
\* return extVersion
\* Mutant: the extracted version is not validated.
ParseMatching_anyVersion(version, release, asset, metadata, manifest) ==
    IF asset = Undefined THEN Null
    ELSE ExtensionVersion(version, release, asset, metadata, manifest)

ParseMatching(version, release, asset, metadata, manifest) ==
    IF asset = Undefined THEN Null
    ELSE IF SemverValid(version) = Null THEN Null
    ELSE ExtensionVersion(version, release, asset, metadata, manifest)

\* The arguments of parseExtensionRelease when it has returned: the release
\* and the manifest are only read, and the version record is a new object.
ParseExtensionReleaseArguments(release, name, manifest) ==
    [release |-> release, manifest |-> manifest]

\* Mutant: a body that is no JSON text makes the release rejected.
ParseExtensionRelease_strictBody(release, name, manifest) ==
    IF ~StartsWith(release.tagName, name \o AtV) THEN Null
    ELSE IF ~IsJsonText(release.body) THEN Null
    ELSE ParseMatching(ExtractVersion(release.tagName), release,
                       FindAsset(release.assets, name \o TarGz),
                       ParseBody(release.body), manifest)

ParseExtensionRelease(release, name, manifest) ==
    IF ~StartsWith(release.tagName, name \o AtV) THEN Null
    ELSE ParseMatching(ExtractVersion(release.tagName), release,
                       FindAsset(release.assets, name \o TarGz),
                       ParseBody(release.body), manifest)

-----------------------------------------------------------------------------
(* String.prototype.localeCompare *)

\* The characters in the order of their primary weights in the root
\* collation: white space, punctuation, symbols, digits, letters.  The two
\* cases of a letter share the primary weight.
PrimaryOrder ==
    <<" ", "-", ".", "@", "+",
      "0", "1", "2", "3", "4", "5", "6", "7", "8", "9",
      "a", "b", "c", "d", "e", "f", "g", "h", "i", "j", "k", "l", "m",
      "n", "o", "p", "q", "r", "s", "t", "u", "v", "w", "x", "y", "z">>

ToLowerCase(c) ==
    IF c \in UpperCase
    THEN Ascii[CodeUnit(c) + (CodeUnit("a") - CodeUnit("A"))]
    ELSE c

PrimaryWeight(c) == CHOOSE i \in 1..Len(PrimaryOrder) : PrimaryOrder[i] = ToLowerCase(c)

\* a.localeCompare(b): the primary weights decide; between strings that differ
\* in case only, the first difference decides and lower case sorts first.
LocaleCompare(a, b) ==
    LET pa == [i \in 1..Len(a) |-> PrimaryWeight(a[i])]
        pb == [i \in 1..Len(b) |-> PrimaryWeight(b[i])]
        common == IF Len(a) < Len(b) THEN Len(a) ELSE Len(b)
        diffs == {i \in 1..common : pa[i] # pb[i]}
        cases == {i \in 1..common : a[i] # b[i]}
        first(S) == CHOOSE i \in S : \A j \in S : i <= j
    IN  IF diffs # {} THEN Sign(pa[first(diffs)] - pb[first(diffs)])
        ELSE IF Len(a) # Len(b) THEN Sign(Len(a) - Len(b))
        ELSE IF cases = {} THEN 0
        ELSE IF a[first(cases)] \in LowerCase THEN -1 ELSE 1

-----------------------------------------------------------------------------
(* buildExtensions *)

\* Mutant: the directory name the manifest is stored under is taken as the name.
ExtensionNameOf_key(entry) == entry.key

\* for (const [, manifest] of manifests) { const name = manifest.extension.name
ExtensionNameOf(entry) == entry.manifest.extension.name

\* Mutant: the test is made against a different version string.
IsUnreleased_otherVersion(manifest) == manifest.extension.version = "0.0"

\* manifest.extension.version === "0.0.0"
IsUnreleased(manifest) == manifest.extension.version = "0.0.0"

\* releases.map((r) => parseExtensionRelease(r, name, manifest))
\*         .filter((v) => v !== null)
ParsedReleases(releases_, name, manifest) ==
    LET kept[i \in 0..Len(releases_)] ==
            IF i = 0 THEN <<>>
            ELSE LET v == ParseExtensionRelease(releases_[i], name, manifest)
                 IN  IF v # Null THEN Append(kept[i - 1], v) ELSE kept[i - 1]
    IN  kept[Len(releases_)]

\* semverRcompare(a, b) builds a SemVer of each argument, and the constructor
\* throws a TypeError for a string that is no version.
SemverCompareThrows(a, b) == SemverParse(a) = Null \/ SemverParse(b) = Null

\* sort calls the comparator when the array holds two elements or more, and
\* then on every element.
SortVersionsThrows(versions) ==
    \E i, j \in 1..Len(versions) :
        i # j /\ SemverCompareThrows(versions[i].version, versions[j].version)

\* Mutant: the versions are left in the order of the releases.
SortVersions_unsorted(versions) == versions

\* .sort((a, b) => semverRcompare(a.version, b.version)); Array.prototype.sort
\* is stable, so each element goes behind the elements that do not sort after it.
SortVersions(versions) ==
    LET sorted[i \in 0..Len(versions)] ==
            IF i = 0 THEN <<>>
            ELSE LET x   == versions[i]
                     s   == sorted[i - 1]
                     pos == Cardinality({j \in 1..Len(s) :
                                SemverRcompare(s[j].version, x.version) <= 0})
                 IN  SubSeq(s, 1, pos) \o <<x>> \o SubSeq(s, pos + 1, Len(s))
    IN  sorted[Len(versions)]

\* Mutant: the extensions are compared by code units.
SortExtensions_codeUnits(exts) ==
    LET sorted[i \in 0..Len(exts)] ==
            IF i = 0 THEN <<>>
            ELSE LET x   == exts[i]
                     s   == sorted[i - 1]
                     pos == Cardinality({j \in 1..Len(s) : ~StrLess(x.name, s[j].name)})
                 IN  SubSeq(s, 1, pos) \o <<x>> \o SubSeq(s, pos + 1, Len(s))
    IN  sorted[Len(exts)]

\* extensions.sort((a, b) => a.name.localeCompare(b.name))
SortExtensions(exts) ==
    LET sorted[i \in 0..Len(exts)] ==
            IF i = 0 THEN <<>>
            ELSE LET x   == exts[i]
                     s   == sorted[i - 1]
                     pos == Cardinality({j \in 1..Len(s) :
                                LocaleCompare(s[j].name, x.name) <= 0})
                 IN  SubSeq(s, 1, pos) \o <<x>> \o SubSeq(s, pos + 1, Len(s))
    IN  sorted[Len(exts)]

\* extensions.push({ name, title, ..., tags: manifest.extension.tags || [],
\*                   ...(manifest.extension.category ? { category } : {}) })
Extension(name, manifest, extensionReleases) ==
    [name          |-> name,
     title         |-> manifest.extension.title,
     description   |-> manifest.extension.description,
     homepage      |-> manifest.extension.homepage,
     latestVersion |-> extensionReleases[1],
     versions      |-> extensionReleases,
     tags          |-> IF "tags" \in DOMAIN manifest.extension
                       THEN manifest.extension.tags ELSE <<>>]
    @@ (IF "category" \in DOMAIN manifest.extension /\ manifest.extension.category # ""
        THEN [category |-> manifest.extension.category]
        ELSE EmptyObject)

\* One turn of the loop over the manifests
PushExtension(pushed, name, manifest, extensionReleases) ==
    IF IsUnreleased(manifest) THEN pushed
    ELSE IF Len(extensionReleases) = 0 THEN pushed
    ELSE Append(pushed, Extension(name, manifest, extensionReleases))

\* The sorted versions of the releases of one manifest
ExtensionReleases(releases_, name, manifest) ==
    SortVersions(ParsedReleases(releases_, name, manifest))

\* The call ends with an error when the sort of the versions of a manifest
\* that is not skipped throws.  Nothing else in the loop throws: JSON.parse
\* runs inside try/catch (ParseBody), the properties of metadata are read
\* through ?. (HasProperty), and localeCompare takes any two strings.
BuildExtensionsThrows(manifests_, releases_) ==
    \E i \in 1..Len(manifests_) :
        /\ ~IsUnreleased(manifests_[i].manifest)
        /\ SortVersionsThrows(ParsedReleases(releases_, ExtensionNameOf(manifests_[i]),
                                             manifests_[i].manifest))

\* Mutant: the releases are sorted in place, here into the opposite order.
BuildExtensionsArguments_sortedInPlace(manifests_, releases_) ==
    [manifests |-> manifests_,
     releases  |-> [i \in 1..Len(releases_) |-> releases_[Len(releases_) + 1 - i]]]

\* The arguments of buildExtensions when it has returned: map and filter
\* return new arrays, sort reorders the array filter returned, and the
\* manifests are only read.
BuildExtensionsArguments(manifests_, releases_) ==
    [manifests |-> manifests_, releases |-> releases_]

BuildExtensions(manifests_, releases_) ==
    LET pushed[i \in 0..Len(manifests_)] ==
            IF i = 0 THEN <<>>
            ELSE PushExtension(pushed[i - 1],
                               ExtensionNameOf(manifests_[i]),
                               manifests_[i].manifest,
                               ExtensionReleases(releases_,
                                                 ExtensionNameOf(manifests_[i]),
                                                 manifests_[i].manifest))
    IN  SortExtensions(pushed[Len(manifests_)])

-----------------------------------------------------------------------------
(* collectTagsAndFeatures *)

\* Set.prototype.add on a Set kept as the sequence of its elements in
\* insertion order
SetAdd(set, x) == IF x \in Range(set) THEN set ELSE Append(set, x)

\* for (const x of list) set.add(x)
SetAddAll(set, list) ==
    LET added[i \in 0..Len(list)] ==
            IF i = 0 THEN set ELSE SetAdd(added[i - 1], list[i])
    IN  added[Len(list)]

\* manifest.extension.tags || []
TagsOrEmpty(manifest) ==
    IF "tags" \in DOMAIN manifest.extension THEN manifest.extension.tags ELSE <<>>

\* manifest.extension.requiredFeatures || []
FeaturesOrEmpty(manifest) ==
    IF "requiredFeatures" \in DOMAIN manifest.extension
    THEN manifest.extension.requiredFeatures ELSE <<>>

\* The argument of collectTagsAndFeatures when it has returned: the tags and
\* features are added to two new Sets, and the manifests are only read.
CollectTagsAndFeaturesArguments(manifests_) == [manifests |-> manifests_]

\* Mutant: manifests of unreleased extensions are passed over.
CollectTagsAndFeatures_releasedOnly(manifests_) ==
    LET collected[i \in 0..Len(manifests_)] ==
            IF i = 0 THEN [allTags |-> <<>>, allFeatures |-> <<>>]
            ELSE IF IsUnreleased(manifests_[i].manifest) THEN collected[i - 1]
            ELSE [allTags |-> SetAddAll(collected[i - 1].allTags,
                                        TagsOrEmpty(manifests_[i].manifest)),
                  allFeatures |-> SetAddAll(collected[i - 1].allFeatures,
                                            FeaturesOrEmpty(manifests_[i].manifest))]
    IN  collected[Len(manifests_)]

CollectTagsAndFeatures(manifests_) ==
    LET collected[i \in 0..Len(manifests_)] ==
            IF i = 0 THEN [allTags |-> <<>>, allFeatures |-> <<>>]
            ELSE [allTags |-> SetAddAll(collected[i - 1].allTags,
                                        TagsOrEmpty(manifests_[i].manifest)),
                  allFeatures |-> SetAddAll(collected[i - 1].allFeatures,
                                            FeaturesOrEmpty(manifests_[i].manifest))]
    IN  collected[Len(manifests_)]

-----------------------------------------------------------------------------
(* transformGitHubApiReleases *)

\* One asset of the canonical shape from one asset of the API shape
TransformAsset(asset) == [name |-> asset.name, url |-> asset.browser_download_url]

\* One release of the canonical shape from one release of the API shape
TransformRelease(release) ==
    [tagName     |-> release.tag_name,
     publishedAt |-> release.published_at,
     assets      |-> [j \in 1..Len(release.assets) |-> TransformAsset(release.assets[j])],
     body        |-> release.body]

\* Mutant: a release without assets is left out.
TransformGitHubApiReleases_skipsAssetless(apiReleases_) ==
    LET kept[i \in 0..Len(apiReleases_)] ==
            IF i = 0 THEN <<>>
            ELSE IF Len(apiReleases_[i].assets) = 0 THEN kept[i - 1]
            ELSE Append(kept[i - 1], TransformRelease(apiReleases_[i]))
    IN  kept[Len(apiReleases_)]

TransformGitHubApiReleases(apiReleases_) ==
    [i \in 1..Len(apiReleases_) |-> TransformRelease(apiReleases_[i])]

-----------------------------------------------------------------------------
(* buildOutput *)

\* Mutant: the strings are sorted as localeCompare orders them.
SortStrings_locale(strings) ==
    LET sorted[i \in 0..Len(strings)] ==
            IF i = 0 THEN <<>>
            ELSE LET x   == strings[i]
                     s   == sorted[i - 1]
                     pos == Cardinality({j \in 1..Len(s) : LocaleCompare(s[j], x) <= 0})
                 IN  SubSeq(s, 1, pos) \o <<x>> \o SubSeq(s, pos + 1, Len(s))
    IN  sorted[Len(strings)]

\* Array.prototype.sort without a comparator: the strings in ascending order
\* of their code units; the sort is stable.
SortStrings(strings) ==
    LET sorted[i \in 0..Len(strings)] ==
            IF i = 0 THEN <<>>
            ELSE LET x   == strings[i]
                     s   == sorted[i - 1]
                     pos == Cardinality({j \in 1..Len(s) : ~StrLess(x, s[j])})
                 IN  SubSeq(s, 1, pos) \o <<x>> \o SubSeq(s, pos + 1, Len(s))
    IN  sorted[Len(strings)]

\* [...set]: the elements of a Set in insertion order, in a new array
SpreadSet(set) == set

\* The arguments of buildOutput when it has returned: the object literal reads
\* config.categories and extensions, and sort reorders the arrays the spreads made.
BuildOutputArguments(extensions_, config_, allTags_, allFeatures_) ==
    [extensions |-> extensions_, config |-> config_,
     allTags |-> allTags_, allFeatures |-> allFeatures_]

BuildOutput(extensions_, config_, allTags_, allFeatures_) ==
    [categories       |-> config_.categories,
     tags             |-> SortStrings(SpreadSet(allTags_)),
     requiredFeatures |-> SortStrings(SpreadSet(allFeatures_)),
     extensions       |-> extensions_]

-----------------------------------------------------------------------------
(* Input values *)

\* The config before a config is given
NoConfig == [categories |-> <<>>]

Category(id, title, description) ==
    [id |-> id, title |-> title, description |-> description]

NameA == <<"a">>

NameAb == <<"a", "b">>

NameB == <<"B">>

V100 == <<"1", ".", "0", ".", "0">>

\* Strings met after "@v" in a tag: valid versions in several spellings and
\* strings the semver grammar rejects.
VersionStrings ==
    { V100,
      <<"v", "1", ".", "0", ".", "0">>,
      <<"1", ".", "0", ".", "0", "+", "b">>,
      <<"2", ".", "0", ".", "0", "-", "r", "c", ".", "1">>,
      <<"1", ".", "0">>,
      <<"0", "1", ".", "0", ".", "0">>,
      <<"x">>,
      <<>> }

\* makeManifest of the tests: the fields the code copies are fixed, the fields
\* it decides on are the parameters.
Manifest(name, title, version, optional, environment) ==
    [extension |->
        [name |-> name, title |-> title, description |-> "A test extension",
         homepage |-> "https://example.com", version |-> version,
         minimumConnectVersion |-> "2024.01.0"] @@ optional]
    @@ environment

Feature(w) == [requiredFeatures |-> w]

Tags(w) == [tags |-> w]

Environment(e) == [environment |-> e]

Gpu == <<"g", "p", "u">>

Cuda == <<"c", "u", "d", "a">>

PythonEnv == {<<"python", ">=3.9">>}

REnv == {<<"r", ">=4.0">>}

\* The values an optional requiredFeatures takes: absent, empty, non-empty
OptionalFeatures(w) == {EmptyObject, Feature(<<>>), Feature(<<w>>)}

\* The values an optional environment takes: absent, empty mapping, a mapping
OptionalEnvironment(name, e) == {EmptyObject, [x \in {name} |-> {}], [x \in {name} |-> e]}

\* The release bodies: strings JSON.parse throws on, the JSON texts of values
\* that are no object, and the JSON texts of metadata objects holding any
\* subset of the three fields, each empty or not.
Bodies ==
    {[kind |-> "text", text |-> ""], [kind |-> "text", text |-> "just some release notes"]}
    \cup {[kind |-> "json", value |-> v] :
            v \in {Null, [type |-> "number", value |-> 42],
                   [type |-> "string", value |-> "notes"],
                   [type |-> "array", value |-> <<Gpu>>]}}
    \cup {[kind |-> "json", value |-> [type |-> "object", value |-> m @@ f @@ e]] :
            m \in {EmptyObject, [minimumConnectVersion |-> ""],
                   [minimumConnectVersion |-> "2025.01.0"]},
            f \in OptionalFeatures(Cuda),
            e \in OptionalEnvironment("requiredEnvironment", REnv)}

Release(tagName, assets, body) ==
    [tagName |-> tagName, publishedAt |-> "2024-06-01T00:00:00Z",
     assets |-> assets, body |-> body]

Asset(name, url) == [name |-> name, url |-> url]

-----------------------------------------------------------------------------
(* Calls of parseExtensionRelease on one release, one name and one manifest *)

ParseTags ==
    {n \o AtV \o v \o t :
        n \in {NameA, NameAb}, v \in VersionStrings, t \in {<<>>, AtV \o <<"x">>}}
    \cup {n \o sep \o V100 : n \in {NameA, NameAb}, sep \in {<<"@">>, <<>>}}

ParseAssets ==
    { <<>>,
      <<Asset(NameA \o TarGz, "url-a")>>,
      <<Asset(NameA \o <<".", "z", "i", "p">>, "url-zip"),
        Asset(NameA \o TarGz, "url-a"), Asset(NameA \o TarGz, "url-a2")>>,
      <<Asset(NameAb \o TarGz, "url-ab"), Asset(NameA \o TarGz, "url-a")>> }

ParseManifests ==
    {Manifest(NameA, "A", "1.0.0", f, e) :
        f \in OptionalFeatures(Gpu), e \in OptionalEnvironment("environment", PythonEnv)}

InitParse ==
    /\ \E m \in ParseManifests : manifests = <<[key |-> NameA, manifest |-> m]>>
    /\ \E t \in ParseTags, a \in ParseAssets, b \in Bodies :
            releases = <<Release(t, a, b)>>
    /\ extensionName \in {NameA, NameAb}
    /\ parsed = Null
    /\ extensions = <<>>
    /\ allTags = <<>>
    /\ allFeatures = <<>>
    /\ called = {}
    /\ config = NoConfig
    /\ output = Null
    /\ apiReleases = <<>>
    /\ error = ""
    /\ env = <<>>
    /\ pc = "library"

\* A call of parseExtensionRelease on the first release and the first manifest
ParseExtensionReleaseCall ==
    /\ parsed' = ParseExtensionRelease(releases[1], extensionName, manifests[1].manifest)
    /\ releases' = [releases EXCEPT ![1] =
            ParseExtensionReleaseArguments(releases[1], extensionName,
                                           manifests[1].manifest).release]
    /\ manifests' = [manifests EXCEPT ![1].manifest =
            ParseExtensionReleaseArguments(releases[1], extensionName,
                                           manifests[1].manifest).manifest]

CallParseExtensionRelease ==
    /\ "parseExtensionRelease" \notin called
    /\ ParseExtensionReleaseCall
    /\ called' = called \cup {"parseExtensionRelease"}
    /\ UNCHANGED <<extensionName, extensions, allTags, allFeatures,
                   config, output, apiReleases, error, scriptVars>>

NextParse == CallParseExtensionRelease

SpecParse == InitParse /\ [][NextParse]_vars

-----------------------------------------------------------------------------
(* Calls of buildExtensions and collectTagsAndFeatures on a map of manifests
   and a list of releases *)

TagPython == <<"p", "y", "t", "h", "o", "n">>

TagData == <<"d", "a", "t", "a">>

TagMl == <<"m", "l">>

\* Manifests under their directory names.  The directory name need not be the
\* declared name, two manifests may declare the same name, and the title
\* tells the manifests apart.
ManifestEntries ==
    { [key |-> NameA,
       manifest |-> Manifest(NameA, "A", "1.0.0",
                        Feature(<<Gpu>>) @@ Tags(<<TagPython, TagData>>), EmptyObject)],
      [key |-> <<"x">>,
       manifest |-> Manifest(NameA, "A unreleased", "0.0.0",
                        Feature(<<Cuda>>) @@ Tags(<<TagMl>>), EmptyObject)],
      [key |-> NameB,
       manifest |-> Manifest(NameB, "B", "1.0.0", EmptyObject, Environment(PythonEnv))],
      [key |-> NameA,
       manifest |-> Manifest(NameAb, "AB", "1.0.0",
                        Feature(<<Gpu, Cuda>>) @@ Tags(<<TagPython, TagMl>>)
                            @@ [category |-> "data-science"], EmptyObject)],
      [key |-> NameAb,
       manifest |-> Manifest(NameB, "B unreleased", "0.0.0", Tags(<<>>), EmptyObject)],
      [key |-> <<"d">>,
       manifest |-> Manifest(NameA, "A copy", "1.0.0", Feature(<<>>), EmptyObject)] }

\* A Map holds a key once.
ManifestMaps ==
    {m \in UNION {[1..n -> ManifestEntries] : n \in 0..MaxManifests} :
        \A i, j \in 1..Len(m) : m[i].key = m[j].key => i = j}

JsonObject(o) == [kind |-> "json", value |-> [type |-> "object", value |-> o]]

BuildReleases ==
    { Release(NameA \o AtV \o V100,
              <<Asset(NameA \o TarGz, "url-a-1.0.0")>>,
              [kind |-> "text", text |-> ""]),
      Release(NameA \o AtV \o <<"1", "0", ".", "0", ".", "0">>,
              <<Asset(NameA \o TarGz, "url-a-10.0.0")>>,
              JsonObject([minimumConnectVersion |-> "2025.01.0",
                          requiredFeatures |-> <<Cuda>>])),
      Release(NameA \o AtV \o <<"9", ".", "0", ".", "0", "-", "r", "c", ".", "1">>,
              <<Asset(NameA \o TarGz, "url-a-9.0.0-rc.1")>>,
              [kind |-> "text", text |-> "just some release notes"]),
      Release(NameA \o AtV \o <<"1", ".", "0", ".", "0", "+", "b">>,
              <<Asset(NameA \o TarGz, "url-a-1.0.0+b")>>,
              JsonObject([requiredEnvironment |-> REnv])),
      Release(NameAb \o AtV \o V100,
              <<Asset(NameAb \o TarGz, "url-ab-1.0.0")>>,
              [kind |-> "text", text |-> ""]),
      Release(NameB \o AtV \o <<"2", ".", "0", ".", "0", "-", "r", "c", ".", "1">>,
              <<Asset(NameB \o TarGz, "url-B-2.0.0-rc.1")>>,
              [kind |-> "json", value |-> Null]),
      Release(NameA \o AtV \o <<"x">>,
              <<Asset(NameA \o TarGz, "url-a-x")>>,
              [kind |-> "text", text |-> ""]),
      Release(NameB \o AtV \o V100, <<>>, [kind |-> "text", text |-> ""]) }

ReleaseLists == UNION {[1..n -> BuildReleases] : n \in 0..MaxReleases}

Init ==
    /\ manifests \in ManifestMaps
    /\ releases \in ReleaseLists
    /\ extensionName = <<>>
    /\ parsed = Null
    /\ extensions = <<>>
    /\ allTags = <<>>
    /\ allFeatures = <<>>
    /\ called = {}
    /\ config = NoConfig
    /\ output = Null
    /\ apiReleases = <<>>
    /\ error = ""
    /\ env = <<>>
    /\ pc = "library"

\* A call of buildExtensions: it returns a list or ends with a TypeError, and
\* leaves its arguments as BuildExtensionsArguments says.
BuildExtensionsCall ==
    /\ IF BuildExtensionsThrows(manifests, releases)
       THEN error' = "TypeError" /\ extensions' = extensions
       ELSE error' = error /\ extensions' = BuildExtensions(manifests, releases)
    /\ manifests' = BuildExtensionsArguments(manifests, releases).manifests
    /\ releases' = BuildExtensionsArguments(manifests, releases).releases

CallBuildExtensions ==
    /\ "buildExtensions" \notin called
    /\ BuildExtensionsCall
    /\ called' = called \cup {"buildExtensions"}
    /\ UNCHANGED <<extensionName, parsed, allTags, allFeatures,
                   config, output, apiReleases, scriptVars>>

\* A call of collectTagsAndFeatures
CollectTagsAndFeaturesCall ==
    /\ LET r == CollectTagsAndFeatures(manifests)
       IN  /\ allTags' = r.allTags
           /\ allFeatures' = r.allFeatures
    /\ manifests' = CollectTagsAndFeaturesArguments(manifests).manifests

CallCollectTagsAndFeatures ==
    /\ "collectTagsAndFeatures" \notin called
    /\ CollectTagsAndFeaturesCall
    /\ called' = called \cup {"collectTagsAndFeatures"}
    /\ UNCHANGED <<releases, extensionName, parsed, extensions,
                   config, output, apiReleases, error, scriptVars>>

Next ==
    \/ CallBuildExtensions
    \/ CallCollectTagsAndFeatures

Spec == Init /\ [][Next]_vars

-----------------------------------------------------------------------------
(* Calls of buildOutput on a list of extensions, a config and two Sets *)

MaxSetSize == 3

TagR == <<"R">>

TagWords == {TagPython, TagData, TagMl, TagR, <<"m", "l", "-", "2">>, <<"1", "0">>, <<"9">>}

FeatureGPU == <<"G", "P", "U">>

FeatureWords == {Gpu, Cuda, FeatureGPU}

\* The Sets of at most n of the words, in every insertion order
SetsOf(words, n) ==
    {q \in UNION {[1..k -> words] : k \in 0..n} :
        \A i, j \in 1..Len(q) : q[i] = q[j] => i = j}

Configs ==
    { NoConfig,
      [categories |-> <<Category("data-science", "Data Science", "DS extensions"),
                        Category("apps", "Apps", "")>>] }

EntryTitled(title) == CHOOSE e \in ManifestEntries : e.manifest.extension.title = title

ReleaseTagged(tagName) == CHOOSE r \in BuildReleases : r.tagName = tagName

Reverse(list) == [i \in 1..Len(list) |-> list[Len(list) + 1 - i]]

\* Lists of Extension records: none, the result of a buildExtensions call,
\* and the same records in the opposite order.
ExtensionLists ==
    LET built == BuildExtensions(<<EntryTitled("AB"), EntryTitled("B")>>,
                                 <<ReleaseTagged(NameAb \o AtV \o V100),
                                   ReleaseTagged(NameB \o AtV \o
                                       <<"2", ".", "0", ".", "0", "-", "r", "c", ".", "1">>)>>)
    IN  {<<>>, built, Reverse(built)}

InitOutput ==
    /\ manifests = <<>>
    /\ releases = <<>>
    /\ extensionName = <<>>
    /\ parsed = Null
    /\ extensions \in ExtensionLists
    /\ allTags \in SetsOf(TagWords, MaxSetSize)
    /\ allFeatures \in SetsOf(FeatureWords, MaxSetSize)
    /\ called = {}
    /\ config \in Configs
    /\ output = Null
    /\ apiReleases = <<>>
    /\ error = ""
    /\ env = <<>>
    /\ pc = "library"

\* A call of buildOutput
BuildOutputCall ==
    /\ output' = BuildOutput(extensions, config, allTags, allFeatures)
    /\ extensions' = BuildOutputArguments(extensions, config, allTags, allFeatures).extensions
    /\ config' = BuildOutputArguments(extensions, config, allTags, allFeatures).config
    /\ allTags' = BuildOutputArguments(extensions, config, allTags, allFeatures).allTags
    /\ allFeatures' = BuildOutputArguments(extensions, config, allTags, allFeatures).allFeatures

CallBuildOutput ==
    /\ "buildOutput" \notin called
    /\ BuildOutputCall
    /\ called' = called \cup {"buildOutput"}
    /\ UNCHANGED <<manifests, releases, extensionName, parsed, apiReleases, error, scriptVars>>

NextOutput == CallBuildOutput

SpecOutput == InitOutput /\ [][NextOutput]_vars

-----------------------------------------------------------------------------
(* The script generate-gallery.ts: one run, statement by statement.  pc names
   the constant or call that runs next; "exited" ends the run. *)

\* The variables of lines 20-23, in their order
EnvNames == <<"EXTENSIONS_DIR", "GALLERY_CONFIG", "EXTENSIONS_JSON", "GITHUB_REPOSITORY">>

\* The statements that call requireEnv, and the statement after the last
RequireEnvStatements == <<"extensionsDir", "galleryConfigPath", "outputPath", "repo", "config">>

\* process.env: any of the variables may be unset, empty or set
Environments == UNION {[set -> {"", "x"}] : set \in SUBSET Range(EnvNames)}

\* Mutant: only an unset variable is refused.
RequireEnvThrows_unsetOnly(env_, name) == name \notin DOMAIN env_

\* if (!value): the value is undefined or the empty string
RequireEnvThrows(env_, name) == name \notin DOMAIN env_ \/ env_[name] = ""

\* The manifests the extensions directory may hold
ScriptManifestMaps ==
    {m \in ManifestMaps :
        \A i \in 1..Len(m) :
            m[i] \in {EntryTitled("A"), EntryTitled("B"), EntryTitled("A unreleased")}}

\* The releases the query may return
ScriptReleaseLists ==
    {r \in ReleaseLists :
        \A i \in 1..Len(r) :
            r[i] \in {ReleaseTagged(NameA \o AtV \o V100),
                      ReleaseTagged(NameA \o AtV \o <<"1", "0", ".", "0", ".", "0">>),
                      ReleaseTagged(NameB \o AtV \o
                          <<"2", ".", "0", ".", "0", "-", "r", "c", ".", "1">>)}}

InitScript ==
    /\ manifests = <<>>
    /\ releases = <<>>
    /\ extensionName = <<>>
    /\ parsed = Null
    /\ extensions = <<>>
    /\ allTags = <<>>
    /\ allFeatures = <<>>
    /\ called = {}
    /\ config = NoConfig
    /\ output = Null
    /\ apiReleases = <<>>
    /\ error = ""
    /\ env \in Environments
    /\ pc = "extensionsDir"

\* Lines 20-23: one call of requireEnv
RequireEnv ==
    /\ \E k \in 1..Len(EnvNames) :
        /\ pc = RequireEnvStatements[k]
        /\ IF RequireEnvThrows(env, EnvNames[k])
           THEN error' = "Error" /\ pc' = "exited"
           ELSE error' = error /\ pc' = RequireEnvStatements[k + 1]
    /\ UNCHANGED <<manifests, releases, extensionName, parsed, extensions, allTags,
                   allFeatures, called, config, output, apiReleases, env>>

\* Lines 26-28: the config file is read, or cannot be read
ReadConfig ==
    /\ pc = "config"
    /\ called' = called \cup {"readFileSync"}
    /\ \/ \E c \in Configs : config' = c /\ pc' = "manifests" /\ error' = error
       \/ config' = config /\ pc' = "exited" /\ error' = "ENOENT"
    /\ UNCHANGED <<manifests, releases, extensionName, parsed, extensions, allTags,
                   allFeatures, output, apiReleases, env>>

\* Lines 31-49: the directory is scanned and every manifest.json is read into
\* the Map, or the directory cannot be read
ScanManifests ==
    /\ pc = "manifests"
    /\ called' = called \cup {"readdirSync"}
    /\ \/ \E m \in ScriptManifestMaps :
            manifests' = m /\ pc' = "collectTagsAndFeatures" /\ error' = error
       \/ manifests' = manifests /\ pc' = "exited" /\ error' = "ENOENT"
    /\ UNCHANGED <<releases, extensionName, parsed, extensions, allTags,
                   allFeatures, config, output, apiReleases, env>>

\* Line 51
ScriptCollectTagsAndFeatures ==
    /\ pc = "collectTagsAndFeatures"
    /\ CollectTagsAndFeaturesCall
    /\ called' = called \cup {"collectTagsAndFeatures"}
    /\ pc' = "allReleases"
    /\ UNCHANGED <<releases, extensionName, parsed, extensions,
                   config, output, apiReleases, error, env>>

\* Lines 54-58: gh release list runs and its output is parsed, or gh fails
QueryReleases ==
    /\ pc = "allReleases"
    /\ called' = called \cup {"execSync"}
    /\ \/ \E r \in ScriptReleaseLists :
            releases' = r /\ pc' = "buildExtensions" /\ error' = error
       \/ releases' = releases /\ pc' = "exited" /\ error' = "Command failed"
    /\ UNCHANGED <<manifests, extensionName, parsed, extensions, allTags,
                   allFeatures, config, output, apiReleases, env>>

\* Line 61
ScriptBuildExtensions ==
    /\ pc = "buildExtensions"
    /\ BuildExtensionsCall
    /\ called' = called \cup {"buildExtensions"}
    /\ pc' = IF error' = "" THEN "buildOutput" ELSE "exited"
    /\ UNCHANGED <<extensionName, parsed, allTags, allFeatures,
                   config, output, apiReleases, env>>

\* Line 64
ScriptBuildOutput ==
    /\ pc = "buildOutput"
    /\ BuildOutputCall
    /\ called' = called \cup {"buildOutput"}
    /\ pc' = "writeFileSync"
    /\ UNCHANGED <<manifests, releases, extensionName, parsed, apiReleases, error, env>>

\* Lines 66-70: the document is written to the output file and the summary is
\* logged
WriteOutput ==
    /\ pc = "writeFileSync"
    /\ called' = called \cup {"writeFileSync"}
    /\ pc' = "exited"
    /\ UNCHANGED <<manifests, releases, extensionName, parsed, extensions, allTags,
                   allFeatures, config, output, apiReleases, error, env>>

NextScript ==
    \/ RequireEnv
    \/ ReadConfig
    \/ ScanManifests
    \/ ScriptCollectTagsAndFeatures
    \/ QueryReleases
    \/ ScriptBuildExtensions
    \/ ScriptBuildOutput
    \/ WriteOutput

SpecScript == InitScript /\ [][NextScript]_vars

\* The script does not stop at a requireEnv call: the call returns or throws.
SpecScriptFair == SpecScript /\ WF_vars(RequireEnv)

-----------------------------------------------------------------------------
(* Calls of the four core operations on the same manifests and releases, each
   once and then again.  buildOutput is called on the results of
   collectTagsAndFeatures and buildExtensions, as the script calls it. *)

InitCore ==
    /\ manifests \in {m \in ScriptManifestMaps : Len(m) > 0}
    /\ releases \in {r \in ScriptReleaseLists : Len(r) > 0}
    /\ extensionName = NameA
    /\ parsed = Null
    /\ extensions = <<>>
    /\ allTags = <<>>
    /\ allFeatures = <<>>
    /\ called = {}
    /\ config \in Configs
    /\ output = Null
    /\ apiReleases = <<>>
    /\ error = ""
    /\ env = <<>>
    /\ pc = "library"

\* An operation that has returned is called a second time.
CallAgain ==
    /\ \/ /\ "parseExtensionRelease" \in called
          /\ ParseExtensionReleaseCall
          /\ UNCHANGED <<extensions, allTags, allFeatures, config, output, error>>
       \/ /\ "buildExtensions" \in called
          /\ BuildExtensionsCall
          /\ UNCHANGED <<parsed, allTags, allFeatures, config, output>>
       \/ /\ "collectTagsAndFeatures" \in called
          /\ CollectTagsAndFeaturesCall
          /\ UNCHANGED <<releases, parsed, extensions, config, output, error>>
       \/ /\ "buildOutput" \in called
          /\ BuildOutputCall
          /\ UNCHANGED <<manifests, releases, parsed, error>>
    /\ called' = called \cup {"again"}
    /\ UNCHANGED <<extensionName, apiReleases, scriptVars>>

NextCore ==
    \/ CallParseExtensionRelease
    \/ CallCollectTagsAndFeatures
    \/ CallBuildExtensions
    \/ ({"collectTagsAndFeatures", "buildExtensions"} \subseteq called /\ CallBuildOutput)
    \/ CallAgain

SpecCore == InitCore /\ [][NextCore]_vars

-----------------------------------------------------------------------------
(* Claims about parseExtensionRelease, checked under SpecParse *)

ParseReturned == "parseExtensionRelease" \in called

TheRelease == releases[1]

TheManifest == manifests[1].manifest

\* The release has an asset named "<extensionName>.tar.gz".
HasNamedAsset ==
    \E i \in 1..Len(TheRelease.assets) :
        TheRelease.assets[i].name = extensionName \o TarGz

\* The part of the tag after the prefix "<extensionName>@v".
TagSuffix ==
    SubSeq(TheRelease.tagName, Len(extensionName) + Len(AtV) + 1, Len(TheRelease.tagName))

\* The body is the JSON text of an object that has the field.
BodyCarries(field) ==
    /\ TheRelease.body.kind = "json"
    /\ TheRelease.body.value.type = "object"
    /\ field \in DOMAIN TheRelease.body.value.value

BodyValue(field) == TheRelease.body.value.value[field]

\* The body is no JSON text, or the JSON text of a value that is no object.
BodyHoldsNoObject ==
    TheRelease.body.kind = "json" => TheRelease.body.value.type # "object"

\* C1: parseExtensionRelease returns none whenever the tag lacks the prefix
\* "<extensionName>@v", or no asset is named "<extensionName>.tar.gz", or the
\* part of the tag after the prefix is no valid semantic version.
C1_NonMatchingReleaseIsNone ==
    ParseReturned =>
        ( ( \/ ~StartsWith(TheRelease.tagName, extensionName \o AtV)
            \/ ~HasNamedAsset
            \/ SemverValid(TagSuffix) = Null )
          => parsed = Null )

\* C2: a release with the prefix, the asset and a valid extracted version
\* yields a version record whatever its body is, and when the body holds no
\* JSON object the three metadata fields are the manifest's.
C2_BodyNeverRejects ==
    ( /\ ParseReturned
      /\ StartsWith(TheRelease.tagName, extensionName \o AtV)
      /\ HasNamedAsset
      /\ SemverValid(ExtractVersion(TheRelease.tagName)) # Null )
    => /\ parsed # Null
       /\ BodyHoldsNoObject =>
            /\ parsed.minimumConnectVersion = TheManifest.extension.minimumConnectVersion
            /\ IF /\ "requiredFeatures" \in DOMAIN TheManifest.extension
                  /\ TheManifest.extension.requiredFeatures # <<>>
               THEN /\ "requiredFeatures" \in DOMAIN parsed
                    /\ parsed.requiredFeatures = TheManifest.extension.requiredFeatures
               ELSE "requiredFeatures" \notin DOMAIN parsed
            /\ IF "environment" \in DOMAIN TheManifest
               THEN /\ "requiredEnvironment" \in DOMAIN parsed
                    /\ parsed.requiredEnvironment = TheManifest.environment
               ELSE "requiredEnvironment" \notin DOMAIN parsed

\* C2 witness: a release with a free-text body was accepted.
C2_Witness ==
    /\ ParseReturned
    /\ parsed # Null
    /\ TheRelease.body = [kind |-> "text", text |-> "just some release notes"]
    /\ "requiredFeatures" \in DOMAIN parsed
    /\ "requiredEnvironment" \in DOMAIN parsed

\* C3: every result has minimumConnectVersion: the body's value when the body
\* is JSON carrying a non-empty one, the manifest's in every other case.
C3_MinimumConnectVersion ==
    (ParseReturned /\ parsed # Null) =>
        /\ "minimumConnectVersion" \in DOMAIN parsed
        /\ parsed.minimumConnectVersion =
            IF BodyCarries("minimumConnectVersion") /\ BodyValue("minimumConnectVersion") # ""
            THEN BodyValue("minimumConnectVersion")
            ELSE TheManifest.extension.minimumConnectVersion

\* C3 witness: the body's value was taken although the manifest has one.
C3_Witness ==
    /\ ParseReturned
    /\ parsed # Null
    /\ BodyCarries("minimumConnectVersion")
    /\ parsed.minimumConnectVersion = "2025.01.0"
    /\ TheManifest.extension.minimumConnectVersion = "2024.01.0"

\* C4: requiredFeatures is the body's list when present and non-empty, else
\* the manifest's list when non-empty, else absent; it is never an empty list.
C4_RequiredFeatures ==
    (ParseReturned /\ parsed # Null) =>
        /\ IF BodyCarries("requiredFeatures") /\ BodyValue("requiredFeatures") # <<>>
           THEN /\ "requiredFeatures" \in DOMAIN parsed
                /\ parsed.requiredFeatures = BodyValue("requiredFeatures")
           ELSE IF /\ "requiredFeatures" \in DOMAIN TheManifest.extension
                   /\ TheManifest.extension.requiredFeatures # <<>>
           THEN /\ "requiredFeatures" \in DOMAIN parsed
                /\ parsed.requiredFeatures = TheManifest.extension.requiredFeatures
           ELSE "requiredFeatures" \notin DOMAIN parsed
        /\ "requiredFeatures" \in DOMAIN parsed => parsed.requiredFeatures # <<>>

\* C4 witness: body and manifest both carry an empty list and the field is absent.
C4_Witness ==
    /\ ParseReturned
    /\ parsed # Null
    /\ BodyCarries("requiredFeatures")
    /\ BodyValue("requiredFeatures") = <<>>
    /\ "requiredFeatures" \in DOMAIN TheManifest.extension
    /\ TheManifest.extension.requiredFeatures = <<>>
    /\ "requiredFeatures" \notin DOMAIN parsed

\* C5: requiredEnvironment is the body's whenever the body carries the field
\* (an empty mapping included), else the manifest's environment when declared,
\* else absent.
C5_RequiredEnvironment ==
    (ParseReturned /\ parsed # Null) =>
        IF BodyCarries("requiredEnvironment")
        THEN /\ "requiredEnvironment" \in DOMAIN parsed
             /\ parsed.requiredEnvironment = BodyValue("requiredEnvironment")
        ELSE IF "environment" \in DOMAIN TheManifest
        THEN /\ "requiredEnvironment" \in DOMAIN parsed
             /\ parsed.requiredEnvironment = TheManifest.environment
        ELSE "requiredEnvironment" \notin DOMAIN parsed

\* C5 witness: the body's empty mapping was taken although the manifest
\* declares an environment.
C5_Witness ==
    /\ ParseReturned
    /\ parsed # Null
    /\ BodyCarries("requiredEnvironment")
    /\ BodyValue("requiredEnvironment") = {}
    /\ "environment" \in DOMAIN TheManifest
    /\ TheManifest.environment = PythonEnv
    /\ parsed.requiredEnvironment = {}

\* The part of the tag after its first "@v".
AfterFirstAtV ==
    SubSeq(TheRelease.tagName, IndexOf(TheRelease.tagName, AtV) + Len(AtV),
           Len(TheRelease.tagName))

\* The first asset of the release named "<extensionName>.tar.gz".
NamedAsset ==
    TheRelease.assets[CHOOSE i \in 1..Len(TheRelease.assets) :
        /\ TheRelease.assets[i].name = extensionName \o TarGz
        /\ \A j \in 1..(i - 1) : TheRelease.assets[j].name # extensionName \o TarGz]

\* C14: the version of a version record is the whole of the tag after its
\* first "@v", also when the tag holds "@v" again; released is the
\* publishedAt of the release and url is the url of its asset named
\* "<extensionName>.tar.gz".
C14_VersionIsWholeSuffix ==
    (ParseReturned /\ parsed # Null) =>
        /\ parsed.version = AfterFirstAtV
        /\ parsed.released = TheRelease.publishedAt
        /\ parsed.url = NamedAsset.url

-----------------------------------------------------------------------------
(* Claims about buildExtensions and collectTagsAndFeatures, checked under Spec *)

BuildReturned == "buildExtensions" \in called

CollectReturned == "collectTagsAndFeatures" \in called

ManifestAt(i) == manifests[i].manifest

\* The extension record was made from the manifest (titles tell manifests apart).
MadeFrom(e, manifest) == e.title = manifest.extension.title

\* The indices of the releases that yield a version for the manifest's declared name.
AcceptedReleases(manifest) ==
    {k \in 1..Len(releases) :
        ParseExtensionRelease(releases[k], manifest.extension.name, manifest) # Null}

\* C6: no extension whose manifest declares version "0.0.0" is in the result
\* of buildExtensions, whatever releases exist for it.
C6_UnreleasedNeverListed ==
    BuildReturned =>
        \A i \in 1..Len(manifests) :
            ManifestAt(i).extension.version = "0.0.0" =>
                \A j \in 1..Len(extensions) : ~MadeFrom(extensions[j], ManifestAt(i))

\* C6 witness: a manifest of version "0.0.0" has a valid matching release.
C6_Witness ==
    /\ BuildReturned
    /\ \E i \in 1..Len(manifests) :
        /\ ManifestAt(i).extension.version = "0.0.0"
        /\ AcceptedReleases(ManifestAt(i)) # {}
        /\ \A j \in 1..Len(extensions) : ~MadeFrom(extensions[j], ManifestAt(i))

\* C7: a manifest gets exactly one Extension record if and only if its version
\* is not "0.0.0" and some release yields a version for its declared name; the
\* record carries the declared name, the directory name plays no part, and the
\* versions list of a record is never empty.
C7_EmittedIffReleased ==
    BuildReturned =>
        /\ \A i \in 1..Len(manifests) :
            LET made == {j \in 1..Len(extensions) : MadeFrom(extensions[j], ManifestAt(i))}
            IN  IF /\ ManifestAt(i).extension.version # "0.0.0"
                   /\ AcceptedReleases(ManifestAt(i)) # {}
                THEN /\ Cardinality(made) = 1
                     /\ \A j \in made : extensions[j].name = ManifestAt(i).extension.name
                ELSE made = {}
        /\ \A j \in 1..Len(extensions) :
            /\ \E i \in 1..Len(manifests) : MadeFrom(extensions[j], ManifestAt(i))
            /\ Len(extensions[j].versions) > 0

\* C7 witness: a manifest stored under a directory name other than its declared
\* name is emitted, and a manifest without an accepted release is not.
C7_Witness ==
    /\ BuildReturned
    /\ \E i \in 1..Len(manifests), j \in 1..Len(extensions) :
        /\ manifests[i].key # ManifestAt(i).extension.name
        /\ MadeFrom(extensions[j], ManifestAt(i))
    /\ \E i \in 1..Len(manifests) :
        /\ ManifestAt(i).extension.version # "0.0.0"
        /\ AcceptedReleases(ManifestAt(i)) = {}

\* The versions list is the accepted releases' versions, each once, by
\* non-increasing precedence, equal precedence in input order.
IsStableDescendingOf(versions, manifest) ==
    LET K == AcceptedReleases(manifest)
    IN  /\ Len(versions) = Cardinality(K)
        /\ \E p \in [1..Len(versions) -> K] :
            /\ \A a, b \in 1..Len(versions) : p[a] = p[b] => a = b
            /\ \A a \in 1..Len(versions) :
                versions[a] = ParseExtensionRelease(releases[p[a]],
                                                    manifest.extension.name, manifest)
            /\ \A a, b \in 1..Len(versions) :
                a < b =>
                    LET c == SemverCompare(versions[a].version, versions[b].version)
                    IN  c > 0 \/ (c = 0 /\ p[a] < p[b])

\* C8: versions holds exactly the accepted releases of the extension, ordered
\* by non-increasing precedence with equal precedence kept in input order, and
\* latestVersion is versions[0], which no entry exceeds.
C8_VersionsSortedLatestFirst ==
    BuildReturned =>
        \A j \in 1..Len(extensions) :
            /\ \A i \in 1..Len(manifests) :
                MadeFrom(extensions[j], ManifestAt(i)) =>
                    IsStableDescendingOf(extensions[j].versions, ManifestAt(i))
            /\ extensions[j].latestVersion = extensions[j].versions[1]
            /\ \A a \in 1..Len(extensions[j].versions) :
                SemverCompare(extensions[j].versions[a].version,
                              extensions[j].latestVersion.version) <= 0

\* C8 witness: the later release is the older version by number, not by
\* spelling, and comes second in versions; the list was reordered.
C8_Witness ==
    /\ BuildReturned
    /\ Len(releases) = 2
    /\ releases[1].tagName = NameA \o AtV \o <<"9", ".", "0", ".", "0", "-", "r", "c", ".", "1">>
    /\ releases[2].tagName = NameA \o AtV \o <<"1", "0", ".", "0", ".", "0">>
    /\ \E j \in 1..Len(extensions) :
        /\ Len(extensions[j].versions) = 2
        /\ extensions[j].latestVersion.version = <<"1", "0", ".", "0", ".", "0">>

\* C9: the result of buildExtensions is ascending by name under localeCompare.
C9_ExtensionsSortedByName ==
    BuildReturned =>
        \A j \in 1..(Len(extensions) - 1) :
            LocaleCompare(extensions[j].name, extensions[j + 1].name) <= 0

\* C9 witness: the manifest map iterates "B" before "a" and the result lists
\* "a" before "B".
C9_Witness ==
    /\ BuildReturned
    /\ Len(manifests) = 2
    /\ ManifestAt(1).extension.name = NameB
    /\ ManifestAt(2).extension.name = NameA
    /\ Len(extensions) = 2
    /\ extensions[1].name = NameA
    /\ extensions[2].name = NameB

\* C10: allTags is the union of the manifests' tags and allFeatures the union
\* of the manifests' requiredFeatures, an undefined list counting as empty,
\* duplicates collapsed, every manifest contributing.
C10_CollectIsUnion ==
    CollectReturned =>
        /\ Range(allTags) =
            UNION {IF "tags" \in DOMAIN ManifestAt(i).extension
                   THEN Range(ManifestAt(i).extension.tags) ELSE {} :
                   i \in 1..Len(manifests)}
        /\ Range(allFeatures) =
            UNION {IF "requiredFeatures" \in DOMAIN ManifestAt(i).extension
                   THEN Range(ManifestAt(i).extension.requiredFeatures) ELSE {} :
                   i \in 1..Len(manifests)}
        /\ Cardinality(Range(allTags)) = Len(allTags)
        /\ Cardinality(Range(allFeatures)) = Len(allFeatures)

\* C10 witness: a manifest of version "0.0.0" without a release contributes a
\* tag and a feature, next to a manifest that shares a feature with it.
C10_Witness ==
    /\ CollectReturned
    /\ releases = <<>>
    /\ \E i, j \in 1..Len(manifests) :
        /\ i # j
        /\ ManifestAt(i).extension.version = "0.0.0"
        /\ TagsOrEmpty(ManifestAt(i)) = <<TagMl>>
        /\ FeaturesOrEmpty(ManifestAt(i)) = <<Cuda>>
        /\ FeaturesOrEmpty(ManifestAt(j)) = <<Gpu, Cuda>>
    /\ TagMl \in Range(allTags)
    /\ Range(allFeatures) = {Gpu, Cuda}

-----------------------------------------------------------------------------
(* Calls of transformGitHubApiReleases on a list of releases of the API shape *)

ApiAsset(name, browser_download_url) ==
    [name |-> name, browser_download_url |-> browser_download_url]

ApiRelease(tag_name, published_at, assets, body) ==
    [tag_name |-> tag_name, published_at |-> published_at, assets |-> assets, body |-> body]

ApiAssetLists ==
    { <<>>,
      <<ApiAsset(NameA \o TarGz, "https://example.com/a.tar.gz")>>,
      <<ApiAsset(NameA \o <<".", "z", "i", "p">>, "https://example.com/a.zip"),
        ApiAsset(NameA \o TarGz, "https://example.com/a.tar.gz")>>,
      <<ApiAsset(NameA \o TarGz, "https://example.com/a.tar.gz"),
        ApiAsset(NameA \o <<".", "z", "i", "p">>, "https://example.com/a.zip")>> }

ApiReleases ==
    {ApiRelease(NameA \o AtV \o V100, "2024-06-01T00:00:00Z", a, b) :
        a \in ApiAssetLists,
        b \in {[kind |-> "text", text |-> ""],
               JsonObject([minimumConnectVersion |-> "2025.01.0"])}}
    \cup {ApiRelease(NameAb \o AtV \o <<"2", ".", "0", ".", "0">>, "2025-01-01T00:00:00Z",
                     <<>>, [kind |-> "text", text |-> "release notes"])}

ApiReleaseLists == UNION {[1..n -> ApiReleases] : n \in 0..MaxReleases}

InitTransform ==
    /\ manifests = <<>>
    /\ releases = <<>>
    /\ extensionName = <<>>
    /\ parsed = Null
    /\ extensions = <<>>
    /\ allTags = <<>>
    /\ allFeatures = <<>>
    /\ called = {}
    /\ config = NoConfig
    /\ output = Null
    /\ apiReleases \in ApiReleaseLists
    /\ error = ""
    /\ env = <<>>
    /\ pc = "library"

CallTransformGitHubApiReleases ==
    /\ "transformGitHubApiReleases" \notin called
    /\ releases' = TransformGitHubApiReleases(apiReleases)
    /\ called' = called \cup {"transformGitHubApiReleases"}
    /\ UNCHANGED <<manifests, extensionName, parsed, extensions, allTags, allFeatures,
                   config, output, apiReleases, error, scriptVars>>

NextTransform == CallTransformGitHubApiReleases

SpecTransform == InitTransform /\ [][NextTransform]_vars

-----------------------------------------------------------------------------
(* Claims about buildOutput, checked under SpecOutput *)

OutputReturned == "buildOutput" \in called

\* The list holds the elements of the Set, each once, in ascending order of
\* their code units.
IsAscendingListOf(list, set) ==
    /\ Range(list) = Range(set)
    /\ \A i, j \in 1..Len(list) : i < j => StrLess(list[i], list[j])

\* C11: the document buildOutput returns has exactly the four fields; tags and
\* requiredFeatures hold the elements of the two input Sets, each once, in
\* ascending lexicographic order; categories is config.categories and
\* extensions is the input list, element for element in the same order.
C11_BuildOutputRestructures ==
    OutputReturned =>
        /\ DOMAIN output = {"categories", "tags", "requiredFeatures", "extensions"}
        /\ IsAscendingListOf(output.tags, allTags)
        /\ IsAscendingListOf(output.requiredFeatures, allFeatures)
        /\ output.categories = config.categories
        /\ output.extensions = extensions

\* C11 witness: a document made from three tags given out of order, one of them
\* upper case, two categories, and two extensions given in descending order.
C11_Witness ==
    /\ OutputReturned
    /\ allTags = <<TagPython, TagR, TagData>>
    /\ output.tags = <<TagR, TagData, TagPython>>
    /\ allFeatures = <<Gpu, FeatureGPU>>
    /\ Len(config.categories) = 2
    /\ Len(extensions) = 2
    /\ LocaleCompare(extensions[1].name, extensions[2].name) > 0
    /\ output.extensions = extensions

-----------------------------------------------------------------------------
(* Claims about transformGitHubApiReleases, checked under SpecTransform *)

TransformReturned == "transformGitHubApiReleases" \in called

\* C12: the canonical releases are as many as the API releases and in their
\* order; release i carries tag_name, published_at and body of API release i
\* as tagName, publishedAt and body, and its assets are the API assets in
\* their order, each with its name and with browser_download_url as url; no
\* assets give an empty asset list.
C12_TransformRenamesFields ==
    TransformReturned =>
        /\ Len(releases) = Len(apiReleases)
        /\ \A i \in 1..Len(apiReleases) :
            /\ DOMAIN releases[i] = {"tagName", "publishedAt", "assets", "body"}
            /\ releases[i].tagName = apiReleases[i].tag_name
            /\ releases[i].publishedAt = apiReleases[i].published_at
            /\ releases[i].body = apiReleases[i].body
            /\ Len(releases[i].assets) = Len(apiReleases[i].assets)
            /\ \A j \in 1..Len(apiReleases[i].assets) :
                /\ DOMAIN releases[i].assets[j] = {"name", "url"}
                /\ releases[i].assets[j].name = apiReleases[i].assets[j].name
                /\ releases[i].assets[j].url =
                        apiReleases[i].assets[j].browser_download_url

\* C12 witness: two API releases of different tags, the first without assets
\* and the second with two assets, have been transformed.
C12_Witness ==
    /\ TransformReturned
    /\ Len(apiReleases) = 2
    /\ apiReleases[1].tag_name # apiReleases[2].tag_name
    /\ Len(apiReleases[1].assets) = 0
    /\ Len(apiReleases[2].assets) = 2
    /\ releases[1].assets = <<>>
    /\ releases[2].assets[1].url = "https://example.com/a.zip"

-----------------------------------------------------------------------------
(* More claims about buildExtensions, checked under Spec *)

\* A version of the Extension record comes from the release: it carries the
\* url of one of the assets of the release.
Contributes(release, e) ==
    \E k \in 1..Len(e.versions), a \in 1..Len(release.assets) :
        /\ e.versions[k].url = release.assets[a].url
        /\ e.versions[k].released = release.publishedAt

\* The part of the tag before its first "@v".
TagPrefix(tagName) == SubSeq(tagName, 1, IndexOf(tagName, AtV) - 1)

\* C15: every release contributes a version to at most one Extension record
\* of the result, and that record is named by the part of the tag before
\* "@v"; also when two manifests under different keys declare one name.
C15_ReleaseBelongsToOneExtension ==
    BuildReturned =>
        \A r \in 1..Len(releases) :
            /\ \A i, j \in 1..Len(extensions) :
                    (Contributes(releases[r], extensions[i])
                        /\ Contributes(releases[r], extensions[j])) => i = j
            /\ \A i \in 1..Len(extensions) :
                    Contributes(releases[r], extensions[i])
                        => extensions[i].name = TagPrefix(releases[r].tagName)

\* The call of buildExtensions has ended, with a list or with an error.
BuildEnded == "buildExtensions" \in called

\* The release is well-formed for the name: the tag has the prefix, an asset
\* has the name, and the extracted version is valid.
WellFormedFor(release, name) ==
    /\ StartsWith(release.tagName, name \o AtV)
    /\ \E a \in 1..Len(release.assets) : release.assets[a].name = name \o TarGz
    /\ SemverValid(ExtractVersion(release.tagName)) # Null

\* C16: a call of buildExtensions never ends with an error, whatever the
\* tags, asset lists and bodies of the releases are; a release that is
\* malformed for an extension (wrong prefix, missing asset, invalid version)
\* contributes no version to the record of that extension.
C16_BuildExtensionsNeverRaises ==
    BuildEnded =>
        /\ error = ""
        /\ \A r \in 1..Len(releases), i \in 1..Len(extensions) :
                Contributes(releases[r], extensions[i])
                    => WellFormedFor(releases[r], extensions[i].name)

\* C16 witness: two released manifests and two releases, one with an invalid
\* version and a body that is no JSON text, one without assets, each with the
\* wrong prefix for the other manifest: the call has returned the empty list.
C16_Witness ==
    /\ BuildEnded
    /\ error = ""
    /\ Len(manifests) = 2
    /\ ManifestAt(1).extension.title = "A"
    /\ ManifestAt(2).extension.title = "B"
    /\ Len(releases) = 2
    /\ releases[1].tagName = NameA \o AtV \o <<"x">>
    /\ ~IsJsonText(releases[1].body)
    /\ releases[2].tagName = NameB \o AtV \o V100
    /\ releases[2].assets = <<>>
    /\ extensions = <<>>

-----------------------------------------------------------------------------
(* Claims about the four core operations together, checked under SpecCore *)

-----------------------------------------------------------------------------
(* Claims about the script, checked under SpecScript *)

\* One of the four variables is unset or empty.
MissingInput == \E k \in 1..Len(EnvNames) : EnvNames[k] \notin DOMAIN env \/ env[EnvNames[k]] = ""

\* With a missing input nothing has been read, queried, called or written, and
\* the run is at one of the four requireEnv statements or has ended in error.
NothingRunsWithoutInputs ==
    MissingInput =>
        /\ called = {}
        /\ pc \in Range(SubSeq(RequireEnvStatements, 1, Len(EnvNames))) \cup {"exited"}
        /\ pc = "exited" => error = "Error"

\* C13: in a run where one of the four environment variables is unset or
\* empty, no file is read, the release query is not run, no core function is
\* called and the output file is not written, at any point of the run, and
\* the run ends with the error of requireEnv.
C13_MissingInputFailsFirst ==
    /\ []NothingRunsWithoutInputs
    /\ MissingInput ~> (pc = "exited" /\ error = "Error" /\ called = {})

\* C13 witness: the first three variables are set and the last is empty, and
\* the run has ended.
C13_Witness ==
    /\ DOMAIN env = Range(EnvNames)
    /\ \A k \in 1..3 : env[EnvNames[k]] = "x"
    /\ env[EnvNames[4]] = ""
    /\ pc = "exited"
    /\ error = "Error"
    /\ called = {}

\* The script has assembled the document.
DocumentMade == "buildOutput" \in called

\* C18: in the document the script assembles, every feature a version of an
\* extension requires is listed in the requiredFeatures of the document, also
\* a feature that comes from a release body.
C18_TopLevelFeaturesComplete ==
    DocumentMade =>
        \A i \in 1..Len(output.extensions) :
            \A k \in 1..Len(output.extensions[i].versions) :
                "requiredFeatures" \in DOMAIN output.extensions[i].versions[k]
                    => Range(output.extensions[i].versions[k].requiredFeatures)
                            \subseteq Range(output.requiredFeatures)

====
